---- MODULE Spec2Model ----
(***************************************************************************)
(* A model of the maestro command line front end, src/cli/commands.py:     *)
(* one invocation from the parsed arguments to the exit code.  CLI.command *)
(* selects a handler, Command.execute dispatches to the handler's action,  *)
(* runs it and normalises what it returns.  The collaborators the actions  *)
(* call (parse_yaml, create_agents, Workflow, Deploy, Popen, json, yaml,   *)
(* jsonschema, psutil) are not part of the file: each call is a choice     *)
(* between returning and raising.                                          *)
(***************************************************************************)
EXTENDS Integers, Sequences, FiniteSets, TLC

VARIABLES
    args,        \* the arguments mapping shared by CLI and the handler
    parsed,      \* the arguments as docopt produced them (never assigned again)
    pc,          \* position of the invocation
    handler,     \* class of the handler CLI.command constructed, "" if none
    func,        \* the action Command.dispatch resolved to, "" if none
    rc,          \* what the action returned
    exitCode,    \* what Command.execute returned
    exc,         \* the exception that left command() or execute(), NoExc if none
    environ,     \* the names set in os.environ by this invocation
    console,     \* the lines written through Console, in order
    calls,       \* calls a user of the handler made of println, print and warn
    parse_result, \* ValidateCmd.__discover_schema_file: what parse_yaml returned
    schema_file, \* ValidateCmd.__validate: the schema in use
    schema,      \* ValidateCmd.__validate: state of the loaded schema
    yamls,       \* ValidateCmd.__validate: the documents of the YAML file
    doc,         \* ValidateCmd.__validate: position in yamls of the next document
    inspected,   \* ValidateCmd.__validate: documents handed to jsonschema.validate
    invoked,     \* the backend calls made (Deploy, Popen), returned or raised, in order
    envs,        \* DeployCmd.ENV: every value ENV() returned, in order
    pids,        \* CleanCmd.__clean: the ids psutil.pids() returned
    procs,       \* the host's process table: pid -> [cmd, status]
    idx,         \* CleanCmd.__clean: index in pids of the process being handled
    signalled,   \* processes that send_signal(SIGTERM) reached
    seen         \* per pid, how its Process(), cmdline() and send_signal() calls ended, "" if not made

vars == <<args, parsed, pc, handler, func, rc, exitCode, exc, environ, console, calls,
          parse_result, schema_file, schema, yamls, doc, inspected, invoked, envs,
          pids, procs, idx, signalled, seen>>

validateVars == <<parse_result, schema_file, schema, yamls, doc, inspected>>
deployVars == <<invoked, envs>>
cleanVars == <<pids, procs, idx, signalled, seen>>

-----------------------------------------------------------------------------
(* Bounds of the model *)

MaxDocs == 3        \* documents in a YAML file
MaxProcs == 2       \* processes in the process table
MaxEnvCalls == 2    \* calls of DeployCmd.ENV() on one handler
MaxPrints == 2      \* calls of println, print and warn by a user of the handler
MaxInt == 2         \* integers an action may return are -MaxInt..MaxInt

-----------------------------------------------------------------------------
(* Python values, as far as truthiness, == None and isinstance(_, int) see  *)
(* them: the type and, for numbers the value, for str and list the length. *)

PyNone == [t |-> "NoneType", n |-> 0]
PyBool(b) == [t |-> "bool", n |-> IF b THEN 1 ELSE 0]
PyInt(i) == [t |-> "int", n |-> i]
PyStr(len) == [t |-> "str", n |-> len]
PyList(len) == [t |-> "list", n |-> len]
PyFloat(i) == [t |-> "float", n |-> i]

Truthy(v) == v.t # "NoneType" /\ v.n # 0

\* bool is a subclass of int
IsInstanceInt(v) == v.t \in {"int", "bool"}

PyValues ==
    {PyNone} \cup {PyBool(b) : b \in BOOLEAN}
             \cup {PyInt(i) : i \in -MaxInt..MaxInt}
             \cup {PyStr(l) : l \in 0..1} \cup {PyList(l) : l \in 0..1}
             \cup {PyFloat(i) : i \in 0..1}

Exc(type, msg) == [type |-> type, msg |-> msg]
NoExc == Exc("", "")
RuntimeError(e) == Exc("RuntimeError", e.msg)

\* "sub in s" on strings
Contains(s, sub) ==
    \E i \in 1..(Len(s) - Len(sub) + 1) : SubSeq(s, i, i + Len(sub) - 1) = sub

Range(s) == {s[i] : i \in 1..Len(s)}

-----------------------------------------------------------------------------
(* The arguments.  docopt yields every key; None is the string "<None>".   *)

CommandOrder == <<"validate", "create", "run", "deploy", "mermaid", "meta-agents", "clean">>
CommandNames == Range(CommandOrder)

NoneStr == "<None>"

EnvLists == {<<>>, <<"A=1">>, <<"A=1", "B=2">>}

\* --k8s as docopt gives it (a bool) and as the code's test expects it (a str)
K8sValues == {PyBool(FALSE), PyBool(TRUE), PyStr(0)}

\* The options a command reads vary; the options of other commands keep
\* docopt's defaults.  --verbose only adds the traceback that _check_verbose
\* prints and is left off.
Options(cmd) ==
    { ("--silent" :> s) @@ ("--dry-run" :> d) @@ ("--verbose" :> FALSE)
      @@ ("SCHEMA_FILE" :> sf) @@ ("YAML_FILE" :> "agent.yaml")
      @@ ("AGENTS_FILE" :> af) @@ ("WORKFLOW_FILE" :> "workflow.yaml")
      @@ ("TEXT_FILE" :> "text.txt") @@ ("--prompt" :> p)
      @@ ("--docker" :> dk) @@ ("--k8s" :> k) @@ ("--kubernetes" :> kb)
      @@ ("--streamlit" :> st) @@ ("--auto-prompt" :> ap) @@ ("ENV" :> ev)
      @@ ("--sequenceDiagram" :> m[1]) @@ ("--flowchart-td" :> m[2])
      @@ ("--flowchart-lr" :> m[3]) :
        s \in BOOLEAN, d \in BOOLEAN,
        sf \in IF cmd = "validate" THEN {NoneStr, "", "schema.json"} ELSE {NoneStr},
        af \in IF cmd = "run" THEN {NoneStr, "None", "agents.yaml"} ELSE {"agents.yaml"},
        p \in IF cmd = "run" THEN BOOLEAN ELSE {FALSE},
        dk \in IF cmd = "deploy" THEN BOOLEAN ELSE {FALSE},
        k \in IF cmd = "deploy" THEN K8sValues ELSE {PyBool(FALSE)},
        kb \in IF cmd = "deploy" THEN {PyBool(b) : b \in BOOLEAN} ELSE {PyBool(FALSE)},
        st \in IF cmd = "deploy" THEN BOOLEAN ELSE {FALSE},
        ap \in IF cmd = "deploy" THEN BOOLEAN ELSE {FALSE},
        ev \in IF cmd = "deploy" THEN EnvLists ELSE {<<>>},
        m \in IF cmd = "mermaid"
                THEN {<<FALSE, FALSE, FALSE>>, <<TRUE, FALSE, FALSE>>,
                      <<FALSE, TRUE, FALSE>>, <<FALSE, FALSE, TRUE>>, <<FALSE, TRUE, TRUE>>}
                ELSE {<<FALSE, FALSE, FALSE>>} }

Flags == [CommandNames -> BOOLEAN]

TrueFlags(f) == {c \in CommandNames : f[c]}

\* docopt sets one command flag; assignments with several (or no) flags set
\* come with the default options.
ArgsOf(f) ==
    IF Cardinality(TrueFlags(f)) = 1
    THEN {f @@ o : o \in Options(CHOOSE c \in CommandNames : f[c])}
    ELSE {f @@ o : o \in {x \in Options("") : ~x["--silent"] /\ ~x["--dry-run"]}}

-----------------------------------------------------------------------------
(* CLI.command and the Command base class *)

\* the if/elif chain of CLI.command: the class constructed, "" when it raises
SelectHandler(a) ==
    IF a["validate"] THEN "ValidateCmd"
    ELSE IF a["create"] THEN "CreateCmd"
    ELSE IF a["run"] THEN "RunCmd"
    ELSE IF a["deploy"] THEN "DeployCmd"
    ELSE IF a["mermaid"] THEN "MermaidCmd"
    ELSE IF a["meta-agents"] THEN "MetaAgentsCmd"
    ELSE IF a["clean"] THEN "CleanCmd"
    ELSE ""

\* a dispatch chain with two branches in the wrong order
DispatchRunFirst(a) ==
    IF a["validate"] THEN "validate"
    ELSE IF a["run"] THEN "run"
    ELSE IF a["create"] THEN "create"
    ELSE IF a["deploy"] THEN "deploy"
    ELSE IF a["mermaid"] THEN "mermaid"
    ELSE IF a["meta-agents"] THEN "meta_agents"
    ELSE IF a["clean"] THEN "clean"
    ELSE ""

\* the if/elif chain of Command.dispatch: the method returned, "" when it raises
Dispatch(a) ==
    IF a["validate"] THEN "validate"
    ELSE IF a["create"] THEN "create"
    ELSE IF a["run"] THEN "run"
    ELSE IF a["deploy"] THEN "deploy"
    ELSE IF a["mermaid"] THEN "mermaid"
    ELSE IF a["meta-agents"] THEN "meta_agents"
    ELSE IF a["clean"] THEN "clean"
    ELSE ""

\* Command.execute on the returned value, with int results lost
ExitCodeIntAsOne(v) ==
    IF v = PyNone THEN PyInt(0) ELSE PyInt(1)

\* Command.execute, lines 95-101
ExitCodeOf(v) ==
    IF v = PyNone THEN PyInt(0)
    ELSE IF IsInstanceInt(v) THEN v
    ELSE PyInt(1)

\* Command.__init_dry_run
InitDryRun(a, env) ==
    IF a["--dry-run"] THEN env \cup {"DRY_RUN"} ELSE env

Init ==
    /\ \E f \in Flags : args \in ArgsOf(f)
    /\ parsed = args
    /\ pc = "parsed"
    /\ handler = ""
    /\ func = ""
    /\ rc = PyNone
    /\ exitCode = PyNone
    /\ exc = NoExc
    /\ environ = {}
    /\ console = <<>>
    /\ calls = 0
    /\ parse_result = <<>>
    /\ schema_file = ""
    /\ schema = ""
    /\ yamls = <<>>
    /\ doc = 0
    /\ inspected = 0
    /\ invoked = <<>>
    /\ envs = <<>>
    /\ pids = <<>>
    /\ procs = <<>>
    /\ idx = 0
    /\ signalled = {}
    /\ seen = <<>>

\* CLI.command: construct the handler of the first true flag, or raise
CLI_command ==
    /\ pc = "parsed"
    /\ IF SelectHandler(args) = ""
       THEN /\ pc' = "raised"
            /\ exc' = Exc("Exception", "Invalid command")
            /\ UNCHANGED <<handler, environ>>
       ELSE /\ pc' = "constructed"
            /\ handler' = SelectHandler(args)
            /\ environ' = InitDryRun(args, environ)
            /\ exc' = exc
    /\ UNCHANGED <<args, parsed, func, rc, exitCode, console, calls,
                   validateVars, deployVars, cleanVars>>

\* Command.execute, line 93: func = self.dispatch()
Command_dispatch ==
    /\ pc = "constructed"
    /\ IF Dispatch(args) = ""
       THEN /\ pc' = "raised"
            /\ exc' = Exc("Exception", "Invalid subcommand")
            /\ func' = func
       ELSE /\ pc' = "dispatched"
            /\ func' = Dispatch(args)
            /\ exc' = exc
    /\ UNCHANGED <<args, parsed, handler, rc, exitCode, environ, console, calls,
                   validateVars, deployVars, cleanVars>>

\* Command.execute, lines 95-101: the action returned rc
Command_execute ==
    /\ pc = "returned"
    /\ exitCode' = ExitCodeOf(rc)
    /\ pc' = "done"
    /\ UNCHANGED <<args, parsed, handler, func, rc, exc, environ, console, calls,
                   validateVars, deployVars, cleanVars>>

\* an action returns r
Return(r) ==
    /\ rc' = r
    /\ pc' = "returned"
    /\ exc' = exc

\* an exception leaves the action, and so execute()
Escape(e) ==
    /\ exc' = e
    /\ pc' = "raised"
    /\ rc' = rc

-----------------------------------------------------------------------------
(* Console and the collaborators' failures *)

Ok(msg) == <<"ok", msg>>
Error(msg) == <<"error", msg>>
Plain(msg) == <<"print", msg>>

\* what parse_yaml, open, json.load and the yaml loader raise on a bad file
ParseErrors == {Exc("FileNotFoundError", "No such file or directory"),
                Exc("YAMLError", "could not parse")}

\* what create_agents, Workflow, Deploy and Popen raise
CollabErrors == {Exc("ValueError", "collaborator failed")}

\* what os.getcwd() raises (lines 287 and 420) when the working directory
\* has been removed
GetcwdErrors == {Exc("FileNotFoundError", "[Errno 2] No such file or directory")}

Unchanged_invocation == UNCHANGED <<parsed, handler, func, exitCode, environ, calls>>

\* where a user of the handler can call it: after command() returned it
\* and before execute(), or after execute() returned or raised
BetweenCalls == handler # "" /\ pc \in {"constructed", "done", "raised"}

Warn(msg) == <<"warn", msg>>

Messages == {"hello"}

Unchanged_by_print ==
    UNCHANGED <<args, parsed, pc, handler, func, rc, exitCode, exc, environ,
                validateVars, deployVars, cleanVars>>

\* Command.println, lines 74-75
Command_println ==
    /\ BetweenCalls /\ calls < MaxPrints
    /\ \E msg \in Messages : console' = Append(console, Plain(msg \o "\n"))
    /\ calls' = calls + 1
    /\ Unchanged_by_print

\* Command.print, lines 77-78
Command_print ==
    /\ BetweenCalls /\ calls < MaxPrints
    /\ \E msg \in Messages : console' = Append(console, Plain(msg))
    /\ calls' = calls + 1
    /\ Unchanged_by_print

\* Command.warn, lines 80-81
Command_warn ==
    /\ BetweenCalls /\ calls < MaxPrints
    /\ \E msg \in Messages : console' = Append(console, Warn(msg))
    /\ calls' = calls + 1
    /\ Unchanged_by_print

-----------------------------------------------------------------------------
(* CreateCmd *)

\* CreateCmd.create, lines 216-223
CreateCmd_create ==
    /\ pc = "dispatched" /\ func = "create"
    /\ \/ \E e \in ParseErrors :              \* line 217: parse_yaml raises
            /\ Escape(e)
            /\ console' = console
       \/ /\ Return(PyInt(0))                  \* create_agents returns
          /\ console' = console
       \/ \E e \in CollabErrors :              \* create_agents raises
            /\ Return(PyInt(0))
            /\ console' = Append(console,
                    Error("Unable to create agents: " \o RuntimeError(e).msg))
    /\ Unchanged_invocation
    /\ UNCHANGED <<args, validateVars, deployVars, cleanVars>>

-----------------------------------------------------------------------------
(* RunCmd *)

\* RunCmd.run, line 262: whether the agents file is parsed
ReadsAgentsFile(a) == a["AGENTS_FILE"] # NoneStr /\ a["AGENTS_FILE"] # "None"

\* RunCmd.run, lines 260-276
RunCmd_run ==
    /\ pc = "dispatched" /\ func = "run"
    /\ \/ /\ ReadsAgentsFile(args)             \* line 263: parse_yaml raises
          /\ \E e \in ParseErrors : Escape(e)
          /\ console' = console
       \/ /\ \E e \in ParseErrors : Escape(e)  \* line 264: parse_yaml raises
          /\ console' = console
       \/ /\ args["--prompt"]                  \* line 268: no such path in the document
          /\ Escape(Exc("KeyError", "spec"))
          /\ console' = console
       \/ /\ Return(PyInt(0))                  \* the workflow ran
          /\ console' = console
       \/ \E e \in CollabErrors :              \* Workflow or workflow.run raises
            /\ Return(PyInt(1))
            /\ console' = Append(console,
                    Error("Unable to run workflow: " \o RuntimeError(e).msg))
    /\ Unchanged_invocation
    /\ UNCHANGED <<args, validateVars, deployVars, cleanVars>>

-----------------------------------------------------------------------------
(* MermaidCmd *)

\* MermaidCmd.__mermaid, lines 370-377: the notation asked of to_mermaid
Notation(a) ==
    IF a["--sequenceDiagram"] THEN "sequenceDiagram"
    ELSE IF a["--flowchart-td"] THEN "flowchart TD"
    ELSE IF a["--flowchart-lr"] THEN "flowchart LR"
    ELSE "sequenceDiagram"

\* MermaidCmd.mermaid, lines 397-408
MermaidCmd_mermaid ==
    /\ pc = "dispatched" /\ func = "mermaid"
    /\ \/ /\ \E e \in ParseErrors : Escape(e)  \* line 398: parse_yaml raises
          /\ console' = console
       \/ /\ Return(PyInt(0))
          /\ console' = (IF args["--silent"] THEN console
                         ELSE Append(console, Ok("Created mermaid for workflow\n")))
                        \o <<Plain(Notation(args) \o "\n")>>
       \/ \E e \in CollabErrors :              \* Workflow or to_mermaid raises
            /\ Return(PyInt(1))
            /\ console' = Append(console,
                    Error("Unable to generate mermaid for workflow: " \o e.msg))
    /\ Unchanged_invocation
    /\ UNCHANGED <<args, validateVars, deployVars, cleanVars>>

-----------------------------------------------------------------------------
(* MetaAgentsCmd *)

\* MetaAgentsCmd.meta_agents, lines 435-444
MetaAgentsCmd_meta_agents ==
    /\ pc = "dispatched" /\ func = "meta_agents"
    /\ LET call == [backend |-> "MetaAgentsUIProcess", env |-> NoneStr]
       IN \/ \E e \in GetcwdErrors :           \* line 420: os.getcwd() raises,
               /\ Return(PyInt(1))              \* Popen is not called
               /\ invoked' = invoked
               /\ console' = Append(console,
                       Error("Unable to run meta-agents: " \o RuntimeError(e).msg))
          \/ /\ Return(PyInt(0))               \* line 421: Popen started the child
             /\ invoked' = Append(invoked, call)
             /\ console' = IF args["--silent"] THEN console
                           ELSE Append(console, Ok("Running meta-agents\n"))
          \/ \E e \in CollabErrors :           \* line 421: Popen raises
               /\ Return(PyInt(1))
               /\ invoked' = Append(invoked, call)
               /\ console' = Append(console,
                       Error("Unable to run meta-agents: " \o RuntimeError(e).msg))
    /\ Unchanged_invocation
    /\ UNCHANGED <<args, envs, validateVars, cleanVars>>

-----------------------------------------------------------------------------
(* DeployCmd *)

\* " ".join(entries)
RECURSIVE Join(_)
Join(entries) ==
    IF entries = <<>> THEN ""
    ELSE IF Len(entries) = 1 THEN entries[1]
    ELSE entries[1] \o " " \o Join(Tail(entries))

\* DeployCmd.ENV, lines 341-343: env_vars is the list held by args
EnvArgs(a) ==
    IF a["--auto-prompt"]
    THEN [a EXCEPT !["ENV"] = Append(@, "AUTO_RUN=true")]
    ELSE a

\* DeployCmd.k8s, lines 323-326
K8s(a) ==
    IF a["--k8s"] # PyStr(0) THEN a["--k8s"] ELSE a["--kubernetes"]

\* DeployCmd.__deploy_agents_workflow, lines 296-309: the branch taken
SelectBackend(a) ==
    IF a["--docker"] THEN "ContainerRuntime"
    ELSE IF Truthy(K8s(a)) THEN "ClusterRuntime"
    ELSE "InteractiveUIProcess"

\* the environment the backend is given: Deploy(agents, workflow, env) on
\* lines 297 and 302; Popen(sys.argv) on line 288 is given none
EnvGiven(backend, env) ==
    IF backend = "InteractiveUIProcess" THEN NoneStr ELSE env

DeployedMessage(backend) ==
    CASE backend = "ContainerRuntime" -> "Workflow deployed: http://127.0.0.1:5000"
      [] backend = "ClusterRuntime" -> "Workflow deployed: http://<kubernetes address>:30051"
      [] OTHER -> "Workflow deployed: http://localhost:8501/?embed=true"

\* a call of the accessor ENV() on the constructed handler
DeployCmd_ENV ==
    /\ handler = "DeployCmd"
    /\ BetweenCalls
    /\ Len(envs) < MaxEnvCalls
    /\ args' = EnvArgs(args)
    /\ envs' = Append(envs, Join(args'["ENV"]))
    /\ UNCHANGED <<parsed, pc, handler, func, rc, exitCode, exc, environ, console, calls,
                   invoked, validateVars, cleanVars>>

\* DeployCmd.deploy, lines 349-356
DeployCmd_deploy ==
    /\ pc = "dispatched" /\ func = "deploy"
    /\ args' = EnvArgs(args)                   \* line 351: self.ENV()
    /\ envs' = Append(envs, Join(args'["ENV"]))
    /\ LET backend == SelectBackend(args')
           env == Join(args'["ENV"])
           call == [backend |-> backend, env |-> EnvGiven(backend, env)]
       IN \/ /\ backend = "InteractiveUIProcess"
             /\ \E e \in GetcwdErrors :        \* line 287: os.getcwd() raises,
                  /\ Return(PyInt(1))           \* Popen is not called
                  /\ invoked' = invoked
                  /\ console' = Append(console,
                        Error("Unable to deploy workflow: "
                              \o "Unable to deploy workflow: " \o RuntimeError(e).msg))
          \/ /\ Return(PyInt(0))
             /\ invoked' = Append(invoked, call)
             /\ console' = IF args["--silent"] THEN console
                           ELSE Append(console, Ok(DeployedMessage(backend)))
          \/ \E e \in CollabErrors :           \* Deploy or Popen raises
               /\ Return(PyInt(1))
               /\ invoked' = Append(invoked, call)
               /\ console' = Append(console,
                     Error("Unable to deploy workflow: "
                           \o "Unable to deploy workflow: " \o e.msg))
    /\ Unchanged_invocation
    /\ UNCHANGED <<validateVars, cleanVars>>

-----------------------------------------------------------------------------
(* ValidateCmd *)

AGENT_SCHEMA_FILE == "schemas/agent_schema.json"
TOOL_SCHEMA_FILE == "schemas/tool_schema.json"
WORKFLOW_SCHEMA_FILE == "schemas/workflow_schema.json"

\* kind "None" is what a document without a kind gives: get('kind') is None
Kinds == {"Agent", "Tool", "Workflow", "Deployment", "None"}

\* a parsed document: a mapping with its kind, or something that is no mapping
ParsedDocs == {[mapping |-> TRUE, kind |-> k] : k \in Kinds}
              \cup {[mapping |-> FALSE, kind |-> "None"]}

\* what parse_yaml hands to __discover_schema_file: a list of documents, or
\* one document (docs then holds it alone), or an exception
ParseResults ==
    {[raises |-> NoExc, islist |-> TRUE, docs |-> <<>>]}
    \cup {[raises |-> NoExc, islist |-> l, docs |-> <<d>>] : l \in BOOLEAN, d \in ParsedDocs}
    \cup {[raises |-> NoExc, islist |-> TRUE,
            docs |-> <<d, [mapping |-> TRUE, kind |-> "Workflow"]>>] : d \in ParsedDocs}
    \cup {[raises |-> e, islist |-> TRUE, docs |-> <<>>] : e \in ParseErrors}

Found(path) == [raises |-> NoExc, path |-> path]
Raised(e) == [raises |-> e, path |-> ""]

\* line 147: raise f"Unknown kind: {kind}"; a str is no exception, so the
\* raise statement itself fails
RaiseUnknownKind(kind) == Exc("TypeError", "exceptions must derive from BaseException")

\* ValidateCmd.__discover_schema_file, lines 135-147, on what parse_yaml gave
DiscoverSchemaFile(data) ==
    IF data.raises # NoExc THEN Raised(data.raises)
    ELSE IF data.islist /\ data.docs = <<>>
         THEN Raised(Exc("IndexError", "list index out of range"))
    ELSE LET yaml_data == data.docs[1]
         IN IF ~yaml_data.mapping
            THEN Raised(Exc("AttributeError", "object has no attribute 'get'"))
            ELSE IF yaml_data.kind = "Agent" THEN Found(AGENT_SCHEMA_FILE)
            ELSE IF yaml_data.kind = "Tool" THEN Found(TOOL_SCHEMA_FILE)
            ELSE IF yaml_data.kind = "Workflow" THEN Found(WORKFLOW_SCHEMA_FILE)
            ELSE Raised(RaiseUnknownKind(yaml_data.kind))

\* a document of the YAML file as __validate meets it: it conforms to the
\* schema, it does not, or loading it (yaml) or dumping it (json) raises
DocStates == {"valid", "invalid", "unloadable"}

RECURSIVE SeqsUpTo(_, _)
SeqsUpTo(S, n) ==
    IF n = 0 THEN {<<>>}
    ELSE SeqsUpTo(S, n - 1)
         \cup {Append(q, x) : q \in {r \in SeqsUpTo(S, n - 1) : Len(r) = n - 1}, x \in S}

\* jsonschema.validate(parse_result, schema): the schema is checked first
ValidateOutcome(sch, d) ==
    IF sch = "malformed" THEN "SchemaError"
    ELSE IF d = "valid" THEN "ok"
    ELSE "ValidationError"

\* a loop that goes on after an invalid document
ContinuesAfterInvalid(outcome) == FALSE

\* lines 164-171: whether the except clauses return 1
StopsAt(outcome) == outcome \in {"ValidationError", "SchemaError"}

\* ValidateCmd.__validate, lines 153-157: print, load the schema, open the file
Validate_open(path) ==
    /\ console' = Append(console, Plain("validating " \o args["YAML_FILE"]
                                        \o " with schema " \o path))
    /\ schema_file' = path
    /\ \/ /\ \E e \in ParseErrors : Escape(e)
          /\ UNCHANGED <<schema, yamls, doc, inspected>>
       \/ /\ schema' \in {"wellformed", "malformed"}
          /\ yamls' \in SeqsUpTo(DocStates, MaxDocs)
          /\ doc' = 1
          /\ inspected' = 0
          /\ pc' = "validating"
          /\ UNCHANGED <<rc, exc>>

\* ValidateCmd.validate, lines 185-194
ValidateCmd_validate ==
    /\ pc = "dispatched" /\ func = "validate"
    /\ IF args["SCHEMA_FILE"] = NoneStr \/ args["SCHEMA_FILE"] = ""
       THEN \E data \in ParseResults :
              LET found == DiscoverSchemaFile(data)
              IN /\ parse_result' = data
                 /\ IF found.raises # NoExc
                    THEN /\ console' = console \o
                               <<Error("Could not parse yaml file: " \o args["YAML_FILE"]),
                                 Error("Invalid YAML file: " \o args["YAML_FILE"] \o ": "
                                       \o found.raises.msg)>>
                         /\ Return(PyInt(1))
                         /\ UNCHANGED <<schema_file, schema, yamls, doc, inspected>>
                    ELSE Validate_open(found.path)
       ELSE /\ Validate_open(args["SCHEMA_FILE"])
            /\ parse_result' = parse_result
    /\ Unchanged_invocation
    /\ UNCHANGED <<args, deployVars, cleanVars>>

\* ValidateCmd.__validate, lines 158-172: one turn of the loop over the documents
ValidateCmd_next_document ==
    /\ pc = "validating"
    /\ IF doc > Len(yamls)
       THEN /\ Return(PyInt(0))
            /\ UNCHANGED <<console, doc, inspected>>
       ELSE IF yamls[doc] = "unloadable"
       THEN /\ Escape(Exc("YAMLError", "could not parse"))
            /\ UNCHANGED <<console, doc, inspected>>
       ELSE LET outcome == ValidateOutcome(schema, yamls[doc])
            IN /\ inspected' = inspected + 1
               /\ doc' = doc + 1
               /\ IF StopsAt(outcome)
                  THEN /\ Return(PyInt(1))
                       /\ console' = Append(console,
                            IF outcome = "ValidationError"
                            THEN Error("YAML file is NOT valid:\n ")
                            ELSE Error("Schema file is NOT valid:\n "))
                  ELSE /\ UNCHANGED <<pc, rc, exc>>
                       /\ console' = IF outcome # "ok" \/ args["--silent"] THEN console
                                     ELSE Append(console, Ok("YAML file is valid."))
    /\ Unchanged_invocation
    /\ UNCHANGED <<args, parse_result, schema_file, schema, yamls, deployVars, cleanVars>>

-----------------------------------------------------------------------------
(* CleanCmd *)

\* command lines met in the process table
Cmdlines == {<<"python", "/usr/bin/streamlit", "run", "app.py">>,
             <<"python", "streamlit", "run">>,
             <<"streamlit", "run", "app.py", "--server.port=8501">>,
             <<"python", "maestro", "deploy", "agents.yaml", "workflow.yaml">>}

\* a process is live, has exited (gone), is one this user may not inspect
\* (denied), or is a zombie
Statuses == {"live", "gone", "denied", "zombie"}

\* how process.cmdline() ends on a process in status st
CmdlineOutcome(st) ==
    CASE st = "live" -> "ok"
      [] st = "gone" -> "NoSuchProcess"
      [] st = "denied" -> "AccessDenied"
      [] st = "zombie" -> "ZombieProcess"

\* how process.send_signal() may end: a zombie still takes the signal on
\* some platforms and raises ZombieProcess on others
SendSignalOutcomes(st) ==
    CASE st = "live" -> {"ok"}
      [] st = "gone" -> {"NoSuchProcess"}
      [] st = "denied" -> {"AccessDenied"}
      [] st = "zombie" -> {"ok", "ZombieProcess"}

\* the test with >= in place of >
MatchesThreeTokens(cmd) == Len(cmd) >= 3 /\ Contains(cmd[2], "streamlit")

\* line 459: len(cmd) > 3 and "streamlit" in cmd[1]
Matches(cmd) == Len(cmd) > 3 /\ Contains(cmd[2], "streamlit")

\* line 461: the exceptions the loop passes over
Swallowed == {"NoSuchProcess", "AccessDenied", "ZombieProcess"}

\* what a psutil call raises besides them
PsutilErrors == {Exc("OSError", "I/O error")}

\* how psutil.Process(pid) ends on a process in status st
ProcessOutcome(st) == IF st = "gone" THEN "NoSuchProcess" ELSE "ok"

\* the for loop goes to its next pid, or ends and clean returns 0
Clean_next_pid ==
    /\ idx' = idx + 1
    /\ console' = console
    /\ IF idx + 1 > Len(pids)
       THEN Return(PyInt(0))
       ELSE pc' = "clean_Process" /\ UNCHANGED <<rc, exc>>

\* lines 463-465 and 473-476: an exception that is not passed over ends the
\* loop; __clean raises RuntimeError, clean reports it and returns 1
Clean_abort(e) ==
    /\ console' = Append(console, Error("Unable to clean: " \o RuntimeError(e).msg))
    /\ Return(PyInt(1))
    /\ idx' = idx

Unchanged_clean ==
    /\ Unchanged_invocation
    /\ UNCHANGED <<args, pids, validateVars, deployVars>>

\* CleanCmd.clean, line 455: psutil.pids()
CleanCmd_pids ==
    /\ pc = "dispatched" /\ func = "clean"
    /\ \/ \E n \in 0..MaxProcs :
            /\ pids' = [i \in 1..n |-> i]
            /\ procs' \in [1..n -> [cmd : Cmdlines, status : Statuses \ {"gone"}]]
            /\ seen' = [i \in 1..n |-> [Process |-> "", cmdline |-> "", send_signal |-> ""]]
            /\ idx' = 1
            /\ console' = console
            /\ IF n = 0 THEN Return(PyInt(0))
               ELSE pc' = "clean_Process" /\ UNCHANGED <<rc, exc>>
       \/ \E e \in PsutilErrors :
            /\ Clean_abort(e)
            /\ UNCHANGED <<pids, procs, seen>>
    /\ Unchanged_invocation
    /\ UNCHANGED <<args, signalled, validateVars, deployVars>>

\* line 457: psutil.Process(pid)
CleanCmd_Process ==
    /\ pc = "clean_Process"
    /\ LET p == pids[idx]
       IN \/ /\ seen' = [seen EXCEPT ![p].Process = ProcessOutcome(procs[p].status)]
             /\ IF ProcessOutcome(procs[p].status) \in Swallowed
                THEN Clean_next_pid
                ELSE pc' = "clean_cmdline" /\ UNCHANGED <<idx, rc, exc, console>>
          \/ \E e \in PsutilErrors :
               /\ seen' = [seen EXCEPT ![p].Process = e.type]
               /\ Clean_abort(e)
    /\ UNCHANGED <<procs, signalled>>
    /\ Unchanged_clean

\* lines 458-459: process.cmdline() and the test on it
CleanCmd_cmdline ==
    /\ pc = "clean_cmdline"
    /\ LET p == pids[idx]
       IN \/ /\ seen' = [seen EXCEPT ![p].cmdline = CmdlineOutcome(procs[p].status)]
             /\ IF CmdlineOutcome(procs[p].status) \notin Swallowed /\ Matches(procs[p].cmd)
                THEN pc' = "clean_send_signal" /\ UNCHANGED <<idx, rc, exc, console>>
                ELSE Clean_next_pid
          \/ \E e \in PsutilErrors :
               /\ seen' = [seen EXCEPT ![p].cmdline = e.type]
               /\ Clean_abort(e)
    /\ UNCHANGED <<procs, signalled>>
    /\ Unchanged_clean

\* line 460: process.send_signal(signal.SIGTERM)
CleanCmd_send_signal ==
    /\ pc = "clean_send_signal"
    /\ LET p == pids[idx]
       IN \/ /\ \E outcome \in SendSignalOutcomes(procs[p].status) :
                  /\ seen' = [seen EXCEPT ![p].send_signal = outcome]
                  /\ signalled' = IF outcome = "ok" THEN signalled \cup {p} ELSE signalled
             /\ Clean_next_pid
          \/ \E e \in PsutilErrors :
               /\ seen' = [seen EXCEPT ![p].send_signal = e.type]
               /\ signalled' = signalled
               /\ Clean_abort(e)
    /\ UNCHANGED procs
    /\ Unchanged_clean

\* the host, during the sweep: a process exits, becomes a zombie, or becomes
\* one this user may not inspect
ProcessTableChange ==
    /\ pc \in {"clean_Process", "clean_cmdline", "clean_send_signal"}
    /\ \E p \in DOMAIN procs, st \in Statuses \ {"live"} :
         /\ procs[p].status # "gone"
         /\ procs[p].status # st
         /\ procs' = [procs EXCEPT ![p].status = st]
    /\ UNCHANGED <<pc, idx, rc, exc, console, signalled, seen>>
    /\ Unchanged_clean

-----------------------------------------------------------------------------
(* The invocation *)

Next ==
    \/ CLI_command
    \/ Command_dispatch
    \/ ValidateCmd_validate
    \/ ValidateCmd_next_document
    \/ CreateCmd_create
    \/ RunCmd_run
    \/ Command_println
    \/ Command_print
    \/ Command_warn
    \/ DeployCmd_ENV
    \/ DeployCmd_deploy
    \/ MermaidCmd_mermaid
    \/ MetaAgentsCmd_meta_agents
    \/ CleanCmd_pids
    \/ CleanCmd_Process
    \/ CleanCmd_cmdline
    \/ CleanCmd_send_signal
    \/ ProcessTableChange
    \/ Command_execute

\* the handler as its users may drive it: command(), calls of its public
\* helpers and accessors, execute(), further calls
Spec == Init /\ [][Next]_vars

\* one run of the program: command(), then execute(), and no other call on
\* the handler (nothing in the file calls println, print, warn, or ENV twice)
NextRun ==
    \/ CLI_command
    \/ Command_dispatch
    \/ ValidateCmd_validate
    \/ ValidateCmd_next_document
    \/ CreateCmd_create
    \/ RunCmd_run
    \/ DeployCmd_deploy
    \/ MermaidCmd_mermaid
    \/ MetaAgentsCmd_meta_agents
    \/ CleanCmd_pids
    \/ CleanCmd_Process
    \/ CleanCmd_cmdline
    \/ CleanCmd_send_signal
    \/ ProcessTableChange
    \/ Command_execute

SpecRun == Init /\ [][NextRun]_vars

-----------------------------------------------------------------------------
(* Command.execute on an action that may return any value: the base class  *)
(* calls whatever dispatch() resolved to and looks only at what it returns *)

\* Command.execute, line 94: rc = func()
Func_returns ==
    /\ pc = "dispatched"
    /\ \E v \in PyValues : Return(v)
    /\ Unchanged_invocation
    /\ UNCHANGED <<args, console, validateVars, deployVars, cleanVars>>

NextExecute ==
    \/ CLI_command
    \/ Command_dispatch
    \/ Func_returns
    \/ Command_execute

SpecExecute == Init /\ [][NextExecute]_vars

-----------------------------------------------------------------------------
(* Properties *)

Finished == pc \in {"returned", "done"}

\* the first command, in the documented priority order, whose flag is set
FirstCommand(a) ==
    IF TrueFlags(a) = {} THEN ""
    ELSE CommandOrder[CHOOSE i \in 1..Len(CommandOrder) :
            /\ a[CommandOrder[i]]
            /\ \A j \in 1..(i - 1) : ~a[CommandOrder[j]]]

\* the handler class of each command
ClassOf(cmd) ==
    CASE cmd = "validate" -> "ValidateCmd"
      [] cmd = "create" -> "CreateCmd"
      [] cmd = "run" -> "RunCmd"
      [] cmd = "deploy" -> "DeployCmd"
      [] cmd = "mermaid" -> "MermaidCmd"
      [] cmd = "meta-agents" -> "MetaAgentsCmd"
      [] cmd = "clean" -> "CleanCmd"
      [] OTHER -> ""

\* the action each command's handler offers
ActionOf(cmd) == IF cmd = "meta-agents" THEN "meta_agents" ELSE cmd

\* C1: CLI.command() constructs the handler of the first true flag in the
\* order validate, create, run, deploy, mermaid, meta-agents, clean, and
\* dispatch() resolves to the action of that same command; with no flag true
\* command() raises "Invalid command" and constructs no handler.
C1_FirstFlagWins ==
    /\ (pc # "parsed" /\ TrueFlags(args) # {})
          => handler = ClassOf(FirstCommand(args))
    /\ (handler # "" /\ pc # "constructed")
          => func = ActionOf(FirstCommand(args))
    /\ (pc # "parsed" /\ TrueFlags(args) = {})
          => /\ pc = "raised"
             /\ exc = Exc("Exception", "Invalid command")
             /\ handler = ""
             /\ func = ""

\* several flags set, the first of them neither validate nor create
C1_Witness ==
    /\ pc = "dispatched"
    /\ ~args["validate"] /\ ~args["create"] /\ args["run"] /\ args["clean"]
    /\ handler = "RunCmd" /\ func = "run"

\* the backend the documentation gives for the three deploy flags
ClaimedBackend(a) ==
    IF a["--docker"] THEN "ContainerRuntime"
    ELSE IF Truthy(a["--k8s"]) \/ Truthy(a["--kubernetes"]) THEN "ClusterRuntime"
    ELSE "InteractiveUIProcess"

\* C2: deploy invokes one backend, ContainerRuntime with --docker, else
\* ClusterRuntime with --k8s or --kubernetes, else InteractiveUIProcess,
\* whatever --streamlit is: never more than one, exactly one when deploy
\* returns 0 (none only when preparing the child's command line failed),
\* and the one invoked is the one the flags select.
C2_BackendSelection ==
    (func = "deploy" /\ Finished)
        => /\ Len(invoked) <= 1
           /\ rc = PyInt(0) => Len(invoked) = 1
           /\ Len(invoked) = 1 => invoked[1].backend = ClaimedBackend(parsed)

\* C3: once a handler is selected, no exception leaves execute() for
\* validate, run, deploy, mermaid, meta-agents and clean: every error
\* becomes a returned 1.
C3_NoExceptionEscapes ==
    func \in {"validate", "run", "deploy", "mermaid", "meta_agents", "clean"}
        => /\ pc # "raised"
           /\ exc = NoExc

\* C4: create returns 0 whatever parsing the agents file and creating the
\* agents do; it never returns 1 and no exception leaves it.
C4_CreateReturnsZero ==
    func = "create"
        => /\ pc # "raised"
           /\ Finished => rc = PyInt(0)
           /\ pc = "done" => exitCode = PyInt(0)

\* the documents of the file that do not pass validation against the schema
InvalidDocs == {i \in 1..Len(yamls) : ~(schema = "wellformed" /\ yamls[i] = "valid")}

FirstInvalid == CHOOSE k \in InvalidDocs : \A j \in InvalidDocs : k <= j

Confirmations == Cardinality({i \in 1..Len(console) : console[i] = Ok("YAML file is valid.")})

\* C5: validating a file of N documents, the documents are inspected in
\* order and none after the first invalid one, k; validation then returns 1
\* having inspected exactly 1..k, and returns 0 having inspected all N when
\* all are valid; there is one "valid" confirmation per valid document
\* inspected, and none when silent.
C5_ValidationPrefix ==
    (func = "validate" /\ schema # "" /\ \A i \in 1..Len(yamls) : yamls[i] # "unloadable")
        => /\ inspected <= (IF InvalidDocs = {} THEN Len(yamls) ELSE FirstInvalid)
           /\ Finished =>
                IF InvalidDocs = {}
                THEN rc = PyInt(0) /\ inspected = Len(yamls)
                ELSE rc = PyInt(1) /\ inspected = FirstInvalid
           /\ pc = "done" => exitCode = rc
           /\ Confirmations =
                IF args["--silent"] THEN 0
                ELSE Cardinality({i \in 1..inspected : i \notin InvalidDocs})

\* a valid document, then an invalid one, then one never inspected
C5_Witness ==
    /\ pc = "done" /\ func = "validate"
    /\ schema = "wellformed"
    /\ yamls = <<"valid", "invalid", "valid">>
    /\ inspected = 2
    /\ ~args["--silent"] /\ Confirmations = 1
    /\ exitCode = PyInt(1)

SchemaOfKind(kind) ==
    CASE kind = "Agent" -> AGENT_SCHEMA_FILE
      [] kind = "Tool" -> TOOL_SCHEMA_FILE
      [] kind = "Workflow" -> WORKFLOW_SCHEMA_FILE
      [] OTHER -> ""

\* C6: with no schema path, discovery maps the kind of the document (of its
\* first element, for a sequence) to the agent, tool or workflow schema; for
\* another or a missing kind it fails with an error that names the kind, and
\* validate returns 1 without validating any document.
C6_SchemaDiscovery ==
    (/\ func = "validate" /\ pc # "dispatched"
     /\ parsed["SCHEMA_FILE"] \in {NoneStr, ""}
     /\ parse_result.raises = NoExc
     /\ parse_result.docs # <<>>
     /\ parse_result.docs[1].mapping)
        => LET kind == parse_result.docs[1].kind
           IN IF kind \in {"Agent", "Tool", "Workflow"}
              THEN schema_file = SchemaOfKind(kind)
              ELSE /\ Finished
                   /\ rc = PyInt(1)
                   /\ schema_file = "" /\ inspected = 0
                   /\ \E i \in 1..Len(console) :
                        /\ console[i][1] = "error"
                        /\ Contains(console[i][2], kind)

\* C7, as claimed: None or any falsy result gives 0, a non-zero integer is
\* passed through, any other truthy result gives 1.
C7_FalsyGivesZero ==
    pc = "done"
        => /\ ~Truthy(rc) => exitCode.n = 0
           /\ (rc.t = "int" /\ rc.n # 0) => exitCode = rc
           /\ (Truthy(rc) /\ ~IsInstanceInt(rc)) => exitCode = PyInt(1)

\* C7, amended: None gives 0; every int (0 and the bools included) is
\* passed through unchanged; every other value, truthy or falsy, gives 1.
C7_ExitCode ==
    pc = "done"
        => /\ rc = PyNone => exitCode = PyInt(0)
           /\ rc.t \in {"int", "bool"} => exitCode = rc
           /\ rc.t \in {"str", "list", "float"} => exitCode = PyInt(1)

\* an empty string returned: falsy, and the exit code is 1
C7_Witness ==
    /\ pc = "done"
    /\ rc = PyStr(0)
    /\ exitCode = PyInt(1)

\* C8: every environment specification built is the user's ENV entries in
\* order, then AUTO_RUN=true exactly once when auto-prompt is set; building
\* it again gives the same.
C8_EnvironmentSpec ==
    \A i \in 1..Len(envs) :
        envs[i] = Join(parsed["ENV"] \o
                       (IF parsed["--auto-prompt"] THEN <<"AUTO_RUN=true">> ELSE <<>>))

\* the pids the sweep is done with
Handled == {pids[i] : i \in 1..(idx - 1)}

\* more than three tokens, the second containing "streamlit"
IsUIProcess(cmd) ==
    /\ Len(cmd) > 3
    /\ \E i \in 1..(Len(cmd[2]) - 8) : SubSeq(cmd[2], i, i + 8) = "streamlit"

\* a psutil call failed otherwise than by NoSuchProcess, AccessDenied or
\* ZombieProcess
OtherFailure ==
    \E p \in DOMAIN seen :
        {seen[p].Process, seen[p].cmdline, seen[p].send_signal}
            \ ({"", "ok", "NoSuchProcess", "AccessDenied", "ZombieProcess"}) # {}

\* C9: in a sweep over the enumerated pids where processes vanish, become
\* access-denied or zombies at any time (and psutil fails in no other way),
\* the processes sent SIGTERM are exactly the enumerated ones on which
\* neither Process(), cmdline() nor send_signal() raised and whose command
\* line has more than three tokens, the second containing "streamlit";
\* every such process that stays live is among them; a process that failed
\* does not stop the sweep, and clean returns 0.
C9_CleanSweep ==
    (func = "clean" /\ idx >= 1)
        => /\ exc = NoExc
           /\ signalled =
                {p \in Handled :
                    /\ seen[p].cmdline = "ok" /\ seen[p].send_signal = "ok"
                    /\ IsUIProcess(procs[p].cmd)}
           /\ {p \in Handled : procs[p].status = "live" /\ IsUIProcess(procs[p].cmd)}
                \subseteq signalled
           /\ (Finished /\ ~OtherFailure) => /\ Handled = Range(pids)
                                             /\ rc = PyInt(0)
           /\ (pc = "done" /\ ~OtherFailure) => exitCode = PyInt(0)

\* the first process vanished after psutil.Process(pid) and before
\* cmdline(); the second was still signalled
C9_Witness ==
    /\ pc = "done" /\ func = "clean"
    /\ Len(pids) = 2
    /\ seen[1].cmdline = "NoSuchProcess"
    /\ signalled = {2}
    /\ rc = PyInt(0)

\* C10: the arguments mapping and every value in it stay as parsed.
C10_ArgsNeverMutated == args = parsed

====
